---- MODULE Spec2Model ----
(***************************************************************************)
(* CryptoMomoClient (core/client.ts): the session lifecycle and request    *)
(* dispatch of one client instance.  A state is the client's private       *)
(* fields, the public calls in progress (each suspended at a network call  *)
(* or at the shared refresh promise) and the refresh calls issued so far.  *)
(* A step is one synchronous run of JavaScript between two suspension      *)
(* points: a public call up to its first await, the continuation after a   *)
(* network answer, the continuation after the refresh promise settled, or  *)
(* a synchronous accessor.                                                 *)
(***************************************************************************)
EXTENDS Integers, Sequences, FiniteSets, TLC

\* ------------------------------------------------------------------ bounds
\* Public asynchronous calls one behaviour makes.
MaxReq == 2
\* Calls to the refresh endpoint one behaviour makes.
MaxRefresh == 2

\* ------------------------------------------------------------------ values
\* JavaScript undefined, and the strings the token slots can hold.
Undefined == "undefined"
SessionTokens == {"s1", "s2"}
RefreshTokens == {"r1", "r2"}
\* The tokens the application has in its storage and passes to the setters
\* (the server issues any of SessionTokens and RefreshTokens).
StoredSessionTokens == {"s1"}
StoredRefreshTokens == {"r1"}

\* JavaScript truthiness of a string-or-undefined value.
Truthy(v) == v \notin {Undefined, ""}

\* constants/index.ts
API_CONFIG_BASE_URL == "http://localhost:3000/api/v1"
API_CONFIG_PRODUCTION_URL == "https://api.cryptomomo.africa/api/v1"
API_CONFIG_TIMEOUT == 30000
ENDPOINTS_REFRESH == "/connections/refresh"
AUTH_HEADERS_BEARER == "Authorization"
AUTH_HEADERS_APP_TOKEN == "X-App-Token"
NETWORK_ERROR_MESSAGE == "Network connection failed. Please check your internet connection."
INVALID_OTP_MESSAGE == "Invalid or expired OTP."
IP_NOT_WHITELISTED_MESSAGE == "Your IP address is not whitelisted for this app."

\* Messages a server puts in an error body.
ServerMessages == {"Session token has expired", "Invalid session token"}

\* A case-sensitive slip: the check looks for 'Expired'.
IncludesCapitalExpired(m) == m \in {"Session Expired"}

\* String.prototype.includes('expired') over every message of the model.
IncludesExpired(m) == m \in {"Session token has expired", INVALID_OTP_MESSAGE}

\* ------------------------------------------------------------------ errors
\* types/index.ts: the error classes, as name/code/statusCode/message.
CryptoMomoError(message, code, statusCode) ==
    [name |-> "CryptoMomoError", code |-> code, statusCode |-> statusCode, message |-> message]

ValidationError(message) ==
    [name |-> "ValidationError", code |-> "VALIDATION_ERROR", statusCode |-> 400, message |-> message]

AuthenticationError(message) ==
    [name |-> "AuthenticationError", code |-> "AUTHENTICATION_ERROR", statusCode |-> 401, message |-> message]

NetworkError(message) ==
    [name |-> "NetworkError", code |-> "NETWORK_ERROR", statusCode |-> 500, message |-> message]

\* An error that is no CryptoMomoError: what fetch rejects with (TypeError, or
\* the AbortSignal's TimeoutError), what response.json() throws on a body that
\* is not JSON (SyntaxError), what reading a property of null throws (TypeError).
JsError(name) ==
    [name |-> name, code |-> Undefined, statusCode |-> 0, message |-> name]

NoError == [name |-> "none", code |-> Undefined, statusCode |-> 0, message |-> ""]

\* error instanceof CryptoMomoError
IsCryptoMomoError(e) ==
    e.name \in {"CryptoMomoError", "ValidationError", "AuthenticationError", "NetworkError"}

\* The check is made against the base class.
IsAnyCryptoMomoError(e) ==
    e.name \in {"CryptoMomoError", "ValidationError", "AuthenticationError", "NetworkError"}

\* error instanceof AuthenticationError
IsAuthenticationError(e) == e.name = "AuthenticationError"

\* --------------------------------------------------------------- responses
\* What the network answers to one fetch.  transport = "failed": fetch rejects
\* (no connection, or the timeout signal aborts).  Otherwise a status and a
\* body: "invalid" is not JSON, "null" is the JSON value null, "object" is a
\* JSON object with the envelope fields below (Undefined: field absent).
Response(transport, status, body, success, data, sessionTok, refreshTok, message, code) ==
    [transport |-> transport, status |-> status, body |-> body, success |-> success,
     data |-> data, sessionToken |-> sessionTok, refreshToken |-> refreshTok,
     message |-> message, code |-> code]

TransportFailure ==
    Response("failed", 0, "invalid", FALSE, FALSE, Undefined, Undefined, Undefined, Undefined)

ErrorStatuses == {400, 401, 403, 429, 500}

\* 2xx answers: every body kind, and for an object every envelope (message:
\* the envelope's `error` string).
OkResponses ==
    {Response("ok", 200, b, FALSE, FALSE, Undefined, Undefined, Undefined, Undefined) :
        b \in {"invalid", "null"}}
    \cup {Response("ok", 200, "object", s, FALSE, Undefined, Undefined, m, Undefined) :
        s \in BOOLEAN, m \in {Undefined, "Invalid session token"}}
    \cup {Response("ok", 200, "object", s, TRUE, st, rt, Undefined, Undefined) :
        s \in BOOLEAN, st \in SessionTokens \cup {Undefined}, rt \in RefreshTokens \cup {Undefined}}

\* 2xx answers that are an envelope with success:true and data.
SuccessEnvelopes == {r \in OkResponses : r.body = "object" /\ r.success /\ r.data}

\* non-2xx answers: a body that is not JSON, the JSON value null, or an object
\* with error.message and error.code present or absent.
ErrorResponses ==
    {Response("ok", st, b, FALSE, FALSE, Undefined, Undefined, Undefined, Undefined) :
        st \in ErrorStatuses, b \in {"invalid", "null"}}
    \cup {Response("ok", st, "object", FALSE, FALSE, Undefined, Undefined, m, c) :
        st \in ErrorStatuses, m \in ServerMessages \cup {Undefined}, c \in {Undefined, "SERVER_CODE"}}

Responses == {TransportFailure} \cup OkResponses \cup ErrorResponses

\* The answers the network gives in Spec: every path of makeRequest, of the
\* public operations and of refreshSessionToken is taken by one of them.
AnswerStatuses == {400, 401, 403}
Answers ==
    {TransportFailure}
    \cup {r \in OkResponses : (r.data => r.success) /\ r.message = Undefined}
    \cup {Response("ok", 401, "invalid", FALSE, FALSE, Undefined, Undefined, Undefined, Undefined)}
    \cup {Response("ok", st, "object", FALSE, FALSE, Undefined, Undefined, m, Undefined) :
        st \in AnswerStatuses, m \in {"Session token has expired", Undefined}}

\* The answers to a request of operation op: only verifyOTP reads the tokens
\* of the answer, so the others get the answers without tokens.
AnswersFor(op) ==
    IF op = "verifyOTP" THEN Answers
    ELSE {r \in Answers : r.sessionToken = Undefined /\ r.refreshToken = Undefined}

\* response.ok
ResponseOk(r) == r.status >= 200 /\ r.status <= 299

\* ------------------------------------------------------------------- state
VARIABLES
    config,          \* this.config, as the app token it holds
    sessionToken,    \* this.sessionToken
    refreshToken,    \* this.refreshToken
    refreshPromise,  \* this.refreshPromise: 0 (undefined) or the number of the refresh call it stands for
    refreshCalls,    \* how many calls to the refresh endpoint were made
    outstanding,     \* the refresh calls not answered yet: promise number and body
    settled,         \* the refresh promise that settled and whose awaiters have yet to run
    reqs,            \* the public asynchronous calls in progress
    last,            \* the public call that settled in the latest step, as its caller saw it
    cleared,         \* clearSessionToken returned; no dispatch and no setter since
    verified,        \* verifyOTP stored a session token; no clear and no setter since
    baseUrl,         \* this.baseUrl
    store,           \* core/store.ts: the persisted store's config and currentConnection
    connectionId,    \* useConnect: the connectionId state of the hook
    statusQuery      \* useTransactionStatus: the transaction id and the state of its query

vars == <<config, sessionToken, refreshToken, refreshPromise, refreshCalls, outstanding,
          settled, reqs, last, cleared, verified, baseUrl, store, connectionId, statusQuery>>

\* The state of the React layer (store and hooks), which the client never touches.
hookVars == <<store, connectionId, statusQuery>>

\* The fields refreshSessionToken reads and writes besides the tokens.
refreshVars == <<refreshPromise, refreshCalls, outstanding>>

ReqIds == 1..MaxReq

\* The request operation that call i of a behaviour may be: the first call may
\* be verifyOTP, the later ones sendTransaction (any call may be refreshSession).
RequestOps(i) == IF i = 1 THEN {"verifyOTP"} ELSE {"sendTransaction"}

\* The operations give one common code.
OpErrorCodeCommon(op) == "REQUEST_ERROR"

\* The code each public operation gives the error it throws on a 2xx envelope
\* with success:false or without data.
OpErrorCode(op) ==
    CASE op = "requestConnection" -> "CONNECTION_REQUEST_ERROR"
      [] op = "registerAccount" -> "REGISTRATION_ERROR"
      [] op = "verifyOTP" -> "OTP_VERIFICATION_ERROR"
      [] op = "getConnectionById" -> "GET_CONNECTION_ERROR"
      [] op = "checkConnectionStatus" -> "CHECK_CONNECTION_ERROR"
      [] op = "sendTransaction" -> "TRANSACTION_ERROR"
      [] op = "sendGaslessTransaction" -> "GASLESS_TRANSACTION_ERROR"
      [] op = "confirmTransaction" -> "CONFIRM_TRANSACTION_ERROR"
      [] op = "getTransactionStatus" -> "GET_TRANSACTION_STATUS_ERROR"
      [] op = "getTransactionHistory" -> "GET_TRANSACTION_HISTORY_ERROR"
      [] op = "getBalance" -> "GET_BALANCE_ERROR"

\* -------------------------------------------------- arguments and endpoints
\* An object with optional fields is a function on the names of the fields it
\* has: the arguments of a call, a filters object, a partial configuration.
NoArgs == [k \in {} |-> Undefined]

\* object[k], undefined when the object has no field k.
Get(object, k) == IF k \in DOMAIN object THEN object[k] ELSE Undefined

\* The arguments of a well-formed call of each operation.
DefaultArgs(op) ==
    CASE op \in {"requestConnection", "checkConnectionStatus"} -> [phoneNumber |-> "+233123456789"]
      [] op = "registerAccount" ->
            [firstName |-> "Ama", lastName |-> "Mensah", phoneNumber |-> "+233123456789"]
      [] op = "verifyOTP" -> [connectionId |-> "c1", otp |-> "123456"]
      [] op \in {"getConnectionById", "sendTransaction", "sendGaslessTransaction", "getBalance"} ->
            [connectionId |-> "c1"]
      [] op = "confirmTransaction" -> [transactionId |-> "t1", confirmationCode |-> "654321"]
      [] op = "getTransactionStatus" -> [transactionId |-> "t1"]
      [] OTHER -> NoArgs

\* ENDPOINTS: the path of each operation.
Path(op) ==
    CASE op = "requestConnection" -> "/connections/request"
      [] op = "registerAccount" -> "/connections/register"
      [] op = "verifyOTP" -> "/connections/verify"
      [] op = "getConnectionById" -> "/connections/:connectionId"
      [] op = "checkConnectionStatus" -> "/connections/check/status"
      [] op = "sendTransaction" -> "/transactions/send"
      [] op = "sendGaslessTransaction" -> "/transactions/gasless"
      [] op = "confirmTransaction" -> "/transactions/confirm"
      [] op = "getTransactionStatus" -> "/transactions/:transactionId/status"
      [] op = "getTransactionHistory" -> "/transactions/history"
      [] op = "getBalance" -> "/transactions/balance"
      [] OTHER -> ""

\* The fields that are numbers.
NumberKeys == {"limit", "offset", "chainId"}

\* Number.prototype.toString() over the numbers of the model.
NumberToString(n) ==
    CASE n = 0 -> "0" [] n = 1 -> "1" [] n = 10 -> "10" [] n = 20 -> "20" [] n = 137 -> "137"

\* Percent-encoding (URLSearchParams, encodeURIComponent) over the strings of
\* the model: the '+' of a phone number is encoded.
PercentEncode(v) == IF v = "+233123456789" THEN "%2B233123456789" ELSE v

\* `if (object.k)`: the object has field k and its value is truthy (a number
\* is truthy unless it is 0).
FieldTruthy(object, k) ==
    /\ k \in DOMAIN object
    /\ IF k \in NumberKeys THEN object[k] # 0 ELSE Truthy(object[k])

\* params.append(k, value): the pair as URLSearchParams serialises it.
QueryParam(object, k) ==
    <<k, PercentEncode(IF k \in NumberKeys THEN NumberToString(object[k]) ELSE object[k])>>

\* The run of `if (object.k) params.append(k, ...)` statements over `keys`.
RECURSIVE AppendParams(_, _, _)
AppendParams(params, object, keys) ==
    IF keys = <<>> THEN params
    ELSE AppendParams(IF FieldTruthy(object, Head(keys))
                      THEN Append(params, QueryParam(object, Head(keys)))
                      ELSE params,
                      object, Tail(keys))

\* The endpoint an operation passes to makeRequest: the path, the value put in
\* place of its parameter, whether a '?' follows, and the query string as the
\* sequence of its name=value pairs.
Endpoint(op, args) ==
    LET plain == [path |-> Path(op), param |-> Undefined, mark |-> FALSE, query |-> <<>>]
    IN CASE op = "getConnectionById" -> [plain EXCEPT !.param = Get(args, "connectionId")]
         [] op = "getTransactionStatus" -> [plain EXCEPT !.param = Get(args, "transactionId")]
         [] op = "checkConnectionStatus" ->
               [plain EXCEPT !.mark = TRUE, !.query = <<QueryParam(args, "phoneNumber")>>]
         [] op = "getTransactionHistory" ->
               IF "filters" \in DOMAIN args
               THEN [plain EXCEPT !.mark = TRUE,
                                  !.query = AppendParams(<<>>, args.filters,
                                                <<"connectionId", "phoneNumber", "limit",
                                                  "offset", "status">>)]
               ELSE plain
         [] op = "getBalance" ->
               [plain EXCEPT !.mark = TRUE,
                             !.query = AppendParams(<<QueryParam(args, "connectionId")>>, args,
                                                    <<"tokenAddress", "chainId">>)]
         [] OTHER -> plain

\* The body an operation passes to makeRequest: the request object of a POST
\* (JSON.stringify leaves out the fields that are undefined), none for a GET.
Body(op, args) ==
    IF op \in {"requestConnection", "registerAccount", "verifyOTP", "sendTransaction",
               "sendGaslessTransaction", "confirmTransaction"}
    THEN args ELSE NoArgs

\* A public call that was not made yet.
IdleReq ==
    [pc |-> "idle", op |-> "none", retryOnAuth |-> TRUE, sent |-> <<>>, timeout |-> 0,
     awaiting |-> 0, refreshes |-> 0, err1 |-> NoError,
     endpoint |-> Endpoint("none", NoArgs), body |-> NoArgs, bases |-> <<>>]

\* A public call that has settled; what its caller saw was in `last`.
DoneReq == [IdleReq EXCEPT !.pc = "done"]

\* No refresh promise has settled yet.
NoneSettled == [id |-> 0, error |-> NoError, sessionToken |-> Undefined]

\* No public call settled in the latest step.
NoneLast ==
    [op |-> "none", attempts |-> 0, refreshes |-> 0, thrown |-> NoError,
     result |-> "pending", error |-> NoError]

\* constructor, the effective base URL: the override of the configuration,
\* else the URL of its environment.
EffectiveBaseUrl(cfg) ==
    IF Truthy(cfg.baseUrl) THEN cfg.baseUrl
    ELSE IF cfg.environment = "production" THEN API_CONFIG_PRODUCTION_URL
    ELSE API_CONFIG_BASE_URL

\* The store as it is created: no configuration, no connection (null: empty).
NoStore == [config |-> {}, currentConnection |-> {}, isConnected |-> FALSE]

\* useState(null)
Null == "null"

\* useTransactionStatus not mounted: no transaction id, no data, no fetch.
NoStatusQuery == [transactionId |-> Undefined, data |-> Undefined, timer |-> 0]

\* The React layer is not in use.
NoHooks ==
    /\ store = NoStore
    /\ connectionId = Null
    /\ statusQuery = NoStatusQuery

\* constructor: a configuration with an app token; no tokens, no pending refresh.
Init ==
    /\ config = [appToken |-> "app1", baseUrl |-> Undefined, environment |-> Undefined,
                 timeout |-> 0, retryAttempts |-> 0]
    /\ sessionToken = Undefined
    /\ refreshToken = Undefined
    /\ refreshPromise = 0
    /\ refreshCalls = 0
    /\ outstanding = {}
    /\ settled = NoneSettled
    /\ reqs = [i \in ReqIds |-> IdleReq]
    /\ last = NoneLast
    /\ cleared = FALSE
    /\ verified = FALSE
    /\ baseUrl = EffectiveBaseUrl(config)
    /\ NoHooks

\* makeRequest, the timeout of the signal it puts on a fetch: the configured
\* one, else the default (a timeout of 0 or none configured is falsy).
RequestTimeout(cfg) == IF cfg.timeout # 0 THEN cfg.timeout ELSE API_CONFIG_TIMEOUT

\* isUsingSessionToken()
isUsingSessionToken == Truthy(sessionToken)

\* The app token header is always set, the bearer header added to it.
AuthHeadersBoth(session, cfg) ==
    {[name |-> AUTH_HEADERS_APP_TOKEN, scheme |-> "", value |-> cfg.appToken]}
    \cup (IF Truthy(session)
          THEN {[name |-> AUTH_HEADERS_BEARER, scheme |-> "Bearer", value |-> session]}
          ELSE {})

\* makeRequest, the credential headers it puts on a request: Authorization
\* with `Bearer <session token>` if a session token is held, else X-App-Token
\* with the configured app token.
AuthHeaders(session, cfg) ==
    IF Truthy(session)
    THEN {[name |-> AUTH_HEADERS_BEARER, scheme |-> "Bearer", value |-> session]}
    ELSE {[name |-> AUTH_HEADERS_APP_TOKEN, scheme |-> "", value |-> cfg.appToken]}

\* The retry is sent with the request options of the first attempt.
RetryHeadersReused(req, session, cfg) == req.sent[1]

\* makeRequest, the retry: makeRequest is called again and builds its headers
\* from the token state of that moment.
RetryHeaders(req, session, cfg) == AuthHeaders(session, cfg)

\* handleErrorResponse: the error thrown for a non-2xx response.  A body that
\* is not JSON is read as {}; of the decoded body null, errorData.error throws.
handleErrorResponse(r) ==
    LET errorMessage == IF r.body = "object" /\ Truthy(r.message) THEN r.message
                        ELSE NETWORK_ERROR_MESSAGE
        errorCode == IF r.body = "object" /\ Truthy(r.code) THEN r.code ELSE "UNKNOWN_ERROR"
    IN CASE r.body = "null" -> JsError("TypeError")
         [] r.status = 401 -> AuthenticationError(errorMessage)
         [] r.status = 400 -> ValidationError(errorMessage)
         [] r.status = 403 -> AuthenticationError(IP_NOT_WHITELISTED_MESSAGE)
         [] r.status = 429 -> CryptoMomoError(errorMessage, "RATE_LIMITED", r.status)
         [] OTHER -> CryptoMomoError(errorMessage, errorCode, r.status)

\* What handleErrorResponse throws for a 401 whose body carries the server's
\* expiry message.
ExpiredSession == AuthenticationError("Session token has expired")

\* makeRequest, the try block: what fetch and the parsing of its answer throw
\* (NoError when the decoded body is returned).
FetchError(r) ==
    IF r.transport = "failed" THEN JsError("TypeError")
    ELSE IF ~ResponseOk(r) THEN handleErrorResponse(r)
    ELSE IF r.body = "invalid" THEN JsError("SyntaxError")
    ELSE NoError

\* The condition without its retryOnAuth conjunct.
ShouldRefreshOnAnyAttempt(error, refresh, retryOnAuth) ==
    /\ IsAuthenticationError(error)
    /\ IncludesExpired(error.message)
    /\ Truthy(refresh)

\* The condition without its this.refreshToken conjunct.
ShouldRefreshWithoutToken(error, refresh, retryOnAuth) ==
    /\ IsAuthenticationError(error)
    /\ IncludesExpired(error.message)
    /\ retryOnAuth

\* makeRequest, the catch block's first condition: refresh and retry.
ShouldRefresh(error, refresh, retryOnAuth) ==
    /\ IsAuthenticationError(error)
    /\ IncludesExpired(error.message)
    /\ Truthy(refresh)
    /\ retryOnAuth

\* makeRequest, the rest of the catch block: a typed error passes, any other
\* becomes a NetworkError.
WrapError(error) ==
    IF IsCryptoMomoError(error) THEN error ELSE NetworkError(NETWORK_ERROR_MESSAGE)

\* The token of the answer is stored whether it is there or not.
StoredTokenAlways(held, received) == received

\* verifyOTP, a token slot after a success answer: the token of the answer if
\* it includes one, else the token held.
StoredToken(held, received) == IF Truthy(received) THEN received ELSE held

\* The public request operations.
PublicOps ==
    {"requestConnection", "registerAccount", "verifyOTP", "getConnectionById",
     "checkConnectionStatus", "sendTransaction", "sendGaslessTransaction",
     "confirmTransaction", "getTransactionStatus", "getTransactionHistory", "getBalance"}

\* A public operation after makeRequest returned the decoded body r: the error
\* it throws (NoError when it returns response.data).
EnvelopeError(op, r) ==
    IF r.body = "null" THEN JsError("TypeError")
    ELSE IF ~r.success \/ ~r.data
         THEN CryptoMomoError(IF Truthy(r.message) THEN r.message
                              ELSE IF op \in {"verifyOTP", "confirmTransaction"}
                                   THEN INVALID_OTP_MESSAGE
                                   ELSE NETWORK_ERROR_MESSAGE,
                              OpErrorCode(op), 400)
         ELSE NoError

\* ----------------------------------------------------- refreshSessionToken
\* refreshSessionToken without its first check.
NeverJoinsPending(promise) == FALSE

\* refreshSessionToken, its first check: a refresh is pending, so the caller
\* gets the pending promise and no call is made.
JoinsPending(promise) == promise # 0

\* The body is built without the token.
RefreshCallWithoutToken(id, refresh) ==
    [id |-> id, refreshToken |-> Undefined, timeout |-> 0, base |-> baseUrl,
     path |-> ENDPOINTS_REFRESH]

\* refreshSessionToken, the call it makes for promise number id: the body
\* carries the refresh token held when the call starts; the options of this
\* fetch have no signal (timeout 0: the call is never aborted).
RefreshCall(id, refresh) ==
    [id |-> id, refreshToken |-> refresh, timeout |-> 0, base |-> baseUrl,
     path |-> ENDPOINTS_REFRESH]

\* The envelope of a 2xx answer is not checked: any JSON object is taken for a
\* refresh that succeeded.
RefreshErrorWithoutEnvelopeCheck(r) ==
    IF r.transport = "failed" THEN JsError("TypeError")
    ELSE IF ~ResponseOk(r) THEN AuthenticationError("Failed to refresh session")
    ELSE IF r.body = "invalid" THEN JsError("SyntaxError")
    ELSE IF r.body = "null" THEN JsError("TypeError")
    ELSE NoError

\* refreshSessionToken, the async block after the answer: the error it throws
\* (NoError when it stores the tokens of the answer).
RefreshError(r) ==
    IF r.transport = "failed" THEN JsError("TypeError")
    ELSE IF ~ResponseOk(r) THEN AuthenticationError("Failed to refresh session")
    ELSE IF r.body = "invalid" THEN JsError("SyntaxError")
    ELSE IF r.body = "null" THEN JsError("TypeError")
    ELSE IF r.success /\ r.data THEN NoError
    ELSE AuthenticationError("Invalid refresh response")

\* The handle cleared after the assignments of the success path, not in a
\* finally block.
HandleClearedOnSuccessOnly(promise, error) == IF error = NoError THEN 0 ELSE promise

\* refreshSessionToken, the finally block: the pending handle after the
\* refresh settled with `error`.
HandleAfterSettle(promise, error) == 0

\* refreshSessionToken called by call i (a refresh is pending or a refresh
\* token is held): the caller awaits the pending promise, or a new one whose
\* network call starts now.
AwaitRefresh(i, req) ==
    IF JoinsPending(refreshPromise)
    THEN /\ reqs' = [reqs EXCEPT ![i] =
                        [req EXCEPT !.pc = "refresh", !.awaiting = refreshPromise,
                                    !.refreshes = @ + 1]]
         /\ UNCHANGED refreshVars
    ELSE /\ refreshCalls < MaxRefresh
         /\ refreshCalls' = refreshCalls + 1
         /\ outstanding' = outstanding \cup {RefreshCall(refreshCalls + 1, refreshToken)}
         /\ refreshPromise' = refreshCalls + 1
         /\ reqs' = [reqs EXCEPT ![i] =
                        [req EXCEPT !.pc = "refresh", !.awaiting = refreshCalls + 1,
                                    !.refreshes = @ + 1]]

\* No continuation of a settled refresh promise is waiting to run: the
\* microtask queue is empty, so the event loop may deliver a network answer.
MicrotasksDrained ==
    \A i \in ReqIds : reqs[i].pc = "refresh" => reqs[i].awaiting # settled.id

\* Calls are made in the order of their numbers.
NextCall(i) ==
    /\ reqs[i].pc = "idle"
    /\ \A j \in ReqIds : j < i => reqs[j].pc # "idle"

\* What the caller of `req` sees when it settles: rejected with `error`, or
\* resolved (NoError); `thrown` is what the last answer made makeRequest throw.
Outcome(req, thrown, error) ==
    [op |-> req.op, attempts |-> Len(req.sent), refreshes |-> req.refreshes, thrown |-> thrown,
     result |-> IF error = NoError THEN "resolved" ELSE "rejected", error |-> error]

\* Call i settles.
Settle(i, req, thrown, error) ==
    /\ reqs' = [reqs EXCEPT ![i] = DoneReq]
    /\ last' = Outcome(req, thrown, error)

\* ----------------------------------------------------------------- actions
\* A public request operation is called with arguments args: it builds its
\* endpoint and body, and makeRequest runs up to its fetch.
Call(i, op, args) ==
    /\ NextCall(i)
    /\ reqs' = [reqs EXCEPT ![i] =
                   [IdleReq EXCEPT !.pc = "fetch", !.op = op,
                                   !.endpoint = Endpoint(op, args),
                                   !.body = Body(op, args),
                                   !.bases = <<baseUrl>>,
                                   !.sent = <<AuthHeaders(sessionToken, config)>>,
                                   !.timeout = RequestTimeout(config)]]
    /\ cleared' = FALSE
    /\ last' = NoneLast
    /\ UNCHANGED <<config, baseUrl, hookVars, sessionToken, refreshToken, refreshVars, settled,
                   verified>>

\* A public request operation is called with well-formed arguments.
CallRequest(i, op) == Call(i, op, DefaultArgs(op))

\* refreshSession() is called: refreshSessionToken runs up to its first await.
CallRefreshSession(i) ==
    /\ NextCall(i)
    /\ LET req == [IdleReq EXCEPT !.op = "refreshSession"]
       IN IF ~JoinsPending(refreshPromise) /\ ~Truthy(refreshToken)
          THEN /\ Settle(i, req, NoError, AuthenticationError("No refresh token available"))
               /\ UNCHANGED refreshVars
          ELSE /\ AwaitRefresh(i, req)
               /\ last' = NoneLast
    /\ UNCHANGED <<config, baseUrl, hookVars, sessionToken, refreshToken, settled, cleared, verified>>

\* The answer to the fetch of call i arrives: the rest of makeRequest, and of
\* the public operation when makeRequest returns or throws.
Respond(i, r) ==
    /\ reqs[i].pc = "fetch"
    /\ MicrotasksDrained
    /\ LET req == reqs[i]
           thrown == FetchError(r)
           first == IF req.retryOnAuth THEN [req EXCEPT !.err1 = thrown] ELSE req
       IN IF thrown # NoError
          THEN /\ IF ShouldRefresh(thrown, refreshToken, req.retryOnAuth)
                  THEN /\ AwaitRefresh(i, first)
                       /\ last' = NoneLast
                  ELSE /\ Settle(i, first, thrown, WrapError(thrown))
                       /\ UNCHANGED refreshVars
               /\ UNCHANGED <<sessionToken, refreshToken, verified>>
          ELSE /\ Settle(i, req, NoError, EnvelopeError(req.op, r))
               /\ IF req.op = "verifyOTP" /\ EnvelopeError(req.op, r) = NoError
                  THEN /\ sessionToken' = StoredToken(sessionToken, r.sessionToken)
                       /\ refreshToken' = StoredToken(refreshToken, r.refreshToken)
                       /\ verified' = (verified \/ Truthy(r.sessionToken))
                  ELSE UNCHANGED <<sessionToken, refreshToken, verified>>
               /\ UNCHANGED refreshVars
    /\ UNCHANGED <<config, baseUrl, hookVars, settled, cleared>>

\* The answer to the refresh call c arrives: the rest of the async block of
\* refreshSessionToken, its finally block included; promise c.id settles.
RefreshRespond(c, r) ==
    /\ c \in outstanding
    /\ MicrotasksDrained
    /\ LET thrown == RefreshError(r)
       IN /\ settled' = [id |-> c.id, error |-> thrown,
                         sessionToken |-> IF thrown = NoError THEN r.sessionToken ELSE Undefined]
          /\ sessionToken' = IF thrown = NoError THEN r.sessionToken ELSE sessionToken
          /\ refreshToken' = IF thrown = NoError THEN r.refreshToken ELSE refreshToken
          /\ refreshPromise' = HandleAfterSettle(refreshPromise, thrown)
          /\ outstanding' = outstanding \ {c}
    /\ last' = NoneLast
    /\ UNCHANGED <<config, baseUrl, hookVars, refreshCalls, reqs, cleared, verified>>

\* The continuation of call i after the refresh promise it awaited settled:
\* refreshSession settles like the promise; makeRequest retries once with
\* retryOnAuth false, or lets the refresh's error through.
Resume(i) ==
    /\ reqs[i].pc = "refresh"
    /\ reqs[i].awaiting = settled.id
    /\ LET req == reqs[i]
       IN IF req.op = "refreshSession" \/ settled.error # NoError
          THEN /\ Settle(i, req, NoError, settled.error)
               /\ UNCHANGED cleared
          ELSE /\ reqs' = [reqs EXCEPT ![i] =
                              [req EXCEPT !.pc = "fetch", !.retryOnAuth = FALSE, !.awaiting = 0,
                                          !.sent = Append(@, RetryHeaders(req, sessionToken, config)),
                                          !.bases = Append(@, baseUrl),
                                          !.timeout = RequestTimeout(config)]]
               /\ cleared' = FALSE
               /\ last' = NoneLast
    /\ settled' = IF \E j \in ReqIds \ {i} : reqs[j].pc = "refresh" /\ reqs[j].awaiting = settled.id
                  THEN settled ELSE NoneSettled
    /\ UNCHANGED <<config, baseUrl, hookVars, sessionToken, refreshToken, refreshVars, verified>>

\* getSessionToken()
getSessionToken == sessionToken

\* getRefreshToken()
getRefreshToken == refreshToken

\* The setter starts a session afresh: it drops the refresh token held.
SetSessionTokenOnly(a) ==
    /\ sessionToken' = a
    /\ refreshToken' = Undefined
    /\ cleared' = FALSE
    /\ verified' = FALSE
    /\ last' = NoneLast
    /\ UNCHANGED <<config, baseUrl, hookVars, refreshVars, settled, reqs>>

\* setSessionToken(a)
SetSessionToken(a) ==
    /\ sessionToken' = a
    /\ cleared' = FALSE
    /\ verified' = FALSE
    /\ last' = NoneLast
    /\ UNCHANGED <<config, baseUrl, hookVars, refreshToken, refreshVars, settled, reqs>>

\* setRefreshToken(b)
SetRefreshToken(b) ==
    /\ refreshToken' = b
    /\ last' = NoneLast
    /\ UNCHANGED <<config, baseUrl, hookVars, sessionToken, refreshVars, settled, reqs, cleared, verified>>

\* setTokens(a, b)
SetTokens(a, b) ==
    /\ sessionToken' = a
    /\ refreshToken' = b
    /\ cleared' = FALSE
    /\ verified' = FALSE
    /\ last' = NoneLast
    /\ UNCHANGED <<config, baseUrl, hookVars, refreshVars, settled, reqs>>

\* clearSessionToken()
ClearSessionToken ==
    /\ sessionToken' = Undefined
    /\ refreshToken' = Undefined
    /\ cleared' = TRUE
    /\ verified' = FALSE
    /\ last' = NoneLast
    /\ UNCHANGED <<config, baseUrl, hookVars, refreshVars, settled, reqs>>

Next ==
    \/ \E i \in ReqIds : \E op \in RequestOps(i) : CallRequest(i, op)
    \/ \E i \in ReqIds : CallRefreshSession(i)
    \/ \E i \in ReqIds : \E r \in AnswersFor(reqs[i].op) : Respond(i, r)
    \/ \E c \in outstanding, r \in Answers : RefreshRespond(c, r)
    \/ \E i \in ReqIds : Resume(i)
    \/ \E a \in StoredSessionTokens : SetSessionToken(a)
    \/ \E b \in StoredRefreshTokens : SetRefreshToken(b)
    \/ \E a \in StoredSessionTokens, b \in StoredRefreshTokens : SetTokens(a, b)
    \/ ClearSessionToken

Spec == Init /\ [][Next]_vars

\* ------------------------------------------------------------ one call alone
\* The configurations a client is constructed with (timeout and retryAttempts
\* 0: not configured).
Configs ==
    {[appToken |-> "app1", baseUrl |-> Undefined, environment |-> Undefined,
      timeout |-> t, retryAttempts |-> n] : t \in {0, 5000}, n \in {0, 3}}

\* constructor, with any of the configurations.
InitOne ==
    /\ config \in Configs
    /\ sessionToken = Undefined
    /\ refreshToken = Undefined
    /\ refreshPromise = 0
    /\ refreshCalls = 0
    /\ outstanding = {}
    /\ settled = NoneSettled
    /\ reqs = [i \in ReqIds |-> IdleReq]
    /\ last = NoneLast
    /\ cleared = FALSE
    /\ verified = FALSE
    /\ baseUrl = EffectiveBaseUrl(config)
    /\ NoHooks

\* One public call, of any operation, that gets any answer of the network; the
\* accessors are called at any moment.
NextOne ==
    \/ \E op \in PublicOps : CallRequest(1, op)
    \/ \E r \in Responses : Respond(1, r)
    \/ \E c \in outstanding, r \in Answers : RefreshRespond(c, r)
    \/ Resume(1)
    \/ \E a \in StoredSessionTokens : SetSessionToken(a)
    \/ \E b \in StoredRefreshTokens : SetRefreshToken(b)
    \/ \E a \in StoredSessionTokens, b \in StoredRefreshTokens : SetTokens(a, b)
    \/ ClearSessionToken

SpecOne == InitOne /\ [][NextOne]_vars

\* --------------------------------------------------------------- constructor
\* The configurations passed to the constructor: the app token may be missing
\* (Undefined) or empty.
ConfigInputs ==
    {[appToken |-> a, baseUrl |-> Undefined, environment |-> Undefined,
      timeout |-> t, retryAttempts |-> 0] :
        a \in {"app1", "", Undefined}, t \in {0, 5000}}

\* The app token is compared with undefined only.
ConstructorErrorOnUndefinedOnly(cfg) ==
    IF cfg.appToken = Undefined
    THEN ValidationError("App token required: provide appToken from your CryptoMomo dashboard.")
    ELSE NoError

\* constructor: what it throws (NoError when it returns the client).
ConstructorError(cfg) ==
    IF ~Truthy(cfg.appToken)
    THEN ValidationError("App token required: provide appToken from your CryptoMomo dashboard.")
    ELSE NoError

\* No client was constructed yet: no call can be made.
Unconstructed == [IdleReq EXCEPT !.pc = "new"]

\* The constructor threw: there is no client to call.
NoClient == [IdleReq EXCEPT !.pc = "noclient"]

\* A client exists.
Constructed == \A i \in ReqIds : reqs[i].pc \notin {"new", "noclient"}

\* Before new CryptoMomoClient(config).
InitNew ==
    /\ config \in ConfigInputs
    /\ sessionToken = Undefined
    /\ refreshToken = Undefined
    /\ refreshPromise = 0
    /\ refreshCalls = 0
    /\ outstanding = {}
    /\ settled = NoneSettled
    /\ reqs = [i \in ReqIds |-> Unconstructed]
    /\ last = NoneLast
    /\ cleared = FALSE
    /\ verified = FALSE
    /\ baseUrl = EffectiveBaseUrl(config)
    /\ NoHooks

\* new CryptoMomoClient(config)
Construct ==
    /\ \A i \in ReqIds : reqs[i].pc = "new"
    /\ LET error == ConstructorError(config)
       IN /\ last' = [NoneLast EXCEPT !.op = "constructor", !.thrown = error, !.error = error,
                                      !.result = IF error = NoError THEN "resolved"
                                                 ELSE "rejected"]
          /\ reqs' = [i \in ReqIds |-> IF error = NoError THEN IdleReq ELSE NoClient]
    /\ sessionToken' = Undefined
    /\ refreshToken' = Undefined
    /\ refreshPromise' = 0
    /\ baseUrl' = EffectiveBaseUrl(config)
    /\ UNCHANGED <<config, hookVars, refreshCalls, outstanding, settled, cleared, verified>>

\* A client is constructed, and then used: its accessors, and one call.
NextNew ==
    \/ Construct
    \/ \E op \in PublicOps : CallRequest(1, op)
    \/ \E r \in Answers : Respond(1, r)
    \/ \E c \in outstanding, r \in Answers : RefreshRespond(c, r)
    \/ Resume(1)
    \/ \E a \in StoredSessionTokens, b \in StoredRefreshTokens : Constructed /\ SetTokens(a, b)
    \/ Constructed /\ ClearSessionToken

SpecNew == InitNew /\ [][NextNew]_vars

\* ------------------------------------------------- calls with any arguments
\* The optional values of a field: none, or one of `values`.
Optional(values) == {{}} \cup {{v} : v \in values}

\* The object with field k when a value is given for it, else without it.
Field(k, given) == IF given = {} THEN NoArgs ELSE (k :> (CHOOSE v \in given : TRUE))

\* The filters objects passed to getTransactionHistory.
FilterInputs ==
    {Field("connectionId", c) @@ Field("phoneNumber", p) @@ Field("limit", l)
        @@ Field("offset", o) @@ Field("status", st) :
        c \in Optional({"c1", ""}), p \in Optional({"+233123456789"}),
        l \in Optional({0, 10}), o \in Optional({0, 20}), st \in Optional({"pending"})}

\* The arguments each operation is called with: a phone number, an OTP and a
\* connection id may be empty, every optional argument may be left out.
ArgInputs(op) ==
    CASE op = "requestConnection" -> {[phoneNumber |-> ph] : ph \in {"", "+233123456789"}}
      [] op = "verifyOTP" ->
            {[connectionId |-> c, otp |-> o] : c \in {"", "c1"}, o \in {"", "123456"}}
      [] op = "getTransactionHistory" -> {NoArgs} \cup {[filters |-> f] : f \in FilterInputs}
      [] op = "getBalance" ->
            {[connectionId |-> "c1"] @@ Field("tokenAddress", t) @@ Field("chainId", n) :
                t \in Optional({"0xabc", ""}), n \in Optional({0, 137})}
      [] OTHER -> {DefaultArgs(op)}

\* The strings passed to the setters: the empty string is one of them.
SessionTokenInputs == {"s1", "s2", ""}
RefreshTokenInputs == {"r1", "r2", ""}

\* One public call, of any operation and with any arguments, and the accessors
\* called with any arguments at any moment.
NextArgs ==
    \/ \E op \in PublicOps : \E args \in ArgInputs(op) : Call(1, op, args)
    \/ \E r \in AnswersFor(reqs[1].op) : Respond(1, r)
    \/ \E c \in outstanding, r \in Answers : RefreshRespond(c, r)
    \/ Resume(1)
    \/ \E a \in SessionTokenInputs : SetSessionToken(a)
    \/ \E b \in RefreshTokenInputs : SetRefreshToken(b)
    \/ \E a \in SessionTokenInputs, b \in RefreshTokenInputs : SetTokens(a, b)
    \/ ClearSessionToken

SpecArgs == Init /\ [][NextArgs]_vars

\* -------------------------------------------------------------- updateConfig
\* { ...held, ...given }: the fields of `given` replace those of `held`.
Merge(held, given) == [k \in DOMAIN held |-> IF k \in DOMAIN given THEN given[k] ELSE held[k]]

\* The configuration is merged and this.baseUrl is left as it is.
UpdatedBaseUrlStale(held, newConfig) == held

\* updateConfig, this.baseUrl after it: the base URL of newConfig if it has a
\* truthy one, else the one held.
UpdatedBaseUrl(held, newConfig) ==
    IF Truthy(Get(newConfig, "baseUrl")) THEN newConfig.baseUrl ELSE held

\* updateConfig(newConfig)
UpdateConfig(newConfig) ==
    /\ config' = Merge(config, newConfig)
    /\ baseUrl' = UpdatedBaseUrl(baseUrl, newConfig)
    /\ last' = NoneLast
    /\ UNCHANGED <<hookVars, sessionToken, refreshToken, refreshVars, settled, reqs, cleared,
                   verified>>

\* The partial configurations passed to updateConfig: any of the app token,
\* the base URL and the environment, given or left out.
PartialConfigs ==
    {Field("appToken", a) @@ Field("baseUrl", b) @@ Field("environment", e) :
        a \in Optional({"app2", ""}),
        b \in Optional({"https://b.example/api", ""}),
        e \in Optional({"production"})}

\* A client whose configuration is updated at any moment, before and during
\* one call.
NextConfig ==
    \/ \E newConfig \in PartialConfigs : UpdateConfig(newConfig)
    \/ \E op \in {"verifyOTP", "sendTransaction"} : CallRequest(1, op)
    \/ \E r \in AnswersFor(reqs[1].op) : Respond(1, r)
    \/ \E c \in outstanding, r \in Answers : RefreshRespond(c, r)
    \/ Resume(1)
    \/ \E a \in StoredSessionTokens, b \in StoredRefreshTokens : SetTokens(a, b)
    \/ ClearSessionToken

SpecConfig == Init /\ [][NextConfig]_vars

\* ------------------------------------------------------------ the React layer
\* constants/index.ts
INVALID_PHONE_MESSAGE == "Please enter a valid phone number."
\* useTransactionStatus: the interval its refetchInterval returns.
POLL_INTERVAL == 3000

\* types/index.ts: the status of a connection, and of a transaction.
ConnectionStatuses == {"pending", "approved", "rejected", "expired"}
TransactionStatuses ==
    {"awaiting_confirmation", "confirmed", "executing", "completed", "failed", "expired"}

\* The configurations CryptoMomoProvider puts in the store.
ProviderConfigs ==
    {[appToken |-> a, baseUrl |-> Undefined, environment |-> Undefined,
      timeout |-> 0, retryAttempts |-> 0] : a \in {"app1", ""}}

\* The connection verifyOTP returned: its id, its status, the tokens of the
\* answer (Undefined: none).
Connection(id, status, session) ==
    [id |-> id, status |-> status, sessionToken |-> session, phoneNumber |-> "+233123456789"]

\* A mutation's or a query's function has settled and its callback has yet to
\* run: nothing else runs before it.
CallbackPending == last.result # "pending" /\ last.op # "constructor"

\* No call of a hook is in progress: each call of a hook makes a client of its
\* own, and the model follows one such client at a time.
HookIdle == reqs[1].pc \in {"idle", "done"} /\ ~CallbackPending

\* The function of a hook throws `error` before any client call.
HookReject(op, error) ==
    /\ reqs' = [reqs EXCEPT ![1] = DoneReq]
    /\ last' = Outcome([IdleReq EXCEPT !.op = op], NoError, error)
    /\ UNCHANGED <<config, baseUrl, sessionToken, refreshToken, refreshVars, settled, cleared,
                   verified>>

\* new CryptoMomoClient(cfg) followed by client.op(args): the constructor throws,
\* or the call runs up to its fetch on a client that holds no tokens.
NewClientCall(cfg, op, args) ==
    IF ConstructorError(cfg) # NoError
    THEN HookReject(op, ConstructorError(cfg))
    ELSE /\ config' = cfg
         /\ baseUrl' = EffectiveBaseUrl(cfg)
         /\ sessionToken' = Undefined
         /\ refreshToken' = Undefined
         /\ reqs' = [reqs EXCEPT ![1] =
                        [IdleReq EXCEPT !.pc = "fetch", !.op = op,
                                        !.endpoint = Endpoint(op, args),
                                        !.body = Body(op, args),
                                        !.bases = <<EffectiveBaseUrl(cfg)>>,
                                        !.sent = <<AuthHeaders(Undefined, cfg)>>,
                                        !.timeout = RequestTimeout(cfg)]]
         /\ cleared' = FALSE
         /\ verified' = FALSE
         /\ last' = NoneLast
         /\ UNCHANGED <<refreshVars, settled>>

\* validateConfig / validateAuth / queryFn, the configuration check.
ConfigError(st, message) == IF st.config = {} THEN ValidationError(message) ELSE NoError

\* The configuration of the store (the store holds one).
StoreConfig(st) == CHOOSE cfg \in st.config : TRUE

\* Only the presence of a connection is checked, not its status.
ValidateAuthAnyConnection(st) ==
    IF st.config = {}
    THEN ValidationError("SDK not initialized. Please initialize with CryptoMomoProvider.")
    ELSE IF st.currentConnection = {}
    THEN AuthenticationError("No active connection. Please connect first.")
    ELSE NoError

\* useTransaction.validateAuth: what it throws (NoError when it returns a client).
ValidateAuth(st) ==
    IF st.config = {}
    THEN ValidationError("SDK not initialized. Please initialize with CryptoMomoProvider.")
    ELSE IF \A c \in st.currentConnection : c.status # "approved"
    THEN AuthenticationError("No active connection. Please connect first.")
    ELSE NoError

\* An unknown status is taken for a terminal one.
RefetchIntervalStopsOnUnknown(data) ==
    IF data \in {"awaiting_confirmation", "confirmed", "executing"} THEN POLL_INTERVAL ELSE 0

\* useTransactionStatus.refetchInterval: 0 (false) once the data has a terminal
\* status, else the poll interval.
RefetchInterval(data) ==
    IF data \in {"completed", "failed", "expired"} THEN 0 ELSE POLL_INTERVAL

\* useTransactionStatus, the interval timer of its query: none unless enabled
\* (a configuration and a transaction id), else what refetchInterval returns.
QueryTimer(st, transactionId, data) ==
    IF st.config # {} /\ Truthy(transactionId) THEN RefetchInterval(data) ELSE 0

\* The store changed: the hooks render again and the query sets its timer.
Rendered(st) ==
    /\ store' = st
    /\ statusQuery' = [statusQuery EXCEPT
                          !.timer = QueryTimer(st, statusQuery.transactionId, statusQuery.data)]

\* CryptoMomoProvider: setConfig(config)
SetConfig(cfg) ==
    /\ ~CallbackPending
    /\ Rendered([store EXCEPT !.config = {cfg}])
    /\ last' = NoneLast
    /\ UNCHANGED <<config, baseUrl, sessionToken, refreshToken, refreshVars, settled, reqs,
                   cleared, verified, connectionId>>

\* store.setConnection(connection)
SetConnection(connection) ==
    /\ ~CallbackPending
    /\ Rendered([store EXCEPT !.currentConnection = {connection},
                              !.isConnected = (connection.status = "approved")])
    /\ last' = NoneLast
    /\ UNCHANGED <<config, baseUrl, sessionToken, refreshToken, refreshVars, settled, reqs,
                   cleared, verified, connectionId>>

\* store.clearConnection()
ClearConnection ==
    /\ ~CallbackPending
    /\ Rendered([store EXCEPT !.currentConnection = {}, !.isConnected = FALSE])
    /\ last' = NoneLast
    /\ UNCHANGED <<config, baseUrl, sessionToken, refreshToken, refreshVars, settled, reqs,
                   cleared, verified, connectionId>>

\* store.reset()
StoreReset ==
    /\ ~CallbackPending
    /\ Rendered(NoStore)
    /\ last' = NoneLast
    /\ UNCHANGED <<config, baseUrl, sessionToken, refreshToken, refreshVars, settled, reqs,
                   cleared, verified, connectionId>>

\* useConnect.connect(phoneNum)
HookConnect(phoneNum) ==
    /\ HookIdle
    /\ IF ~Truthy(phoneNum)
       THEN HookReject("requestConnection", ValidationError(INVALID_PHONE_MESSAGE))
       ELSE IF store.config = {}
       THEN HookReject("requestConnection",
                       ConfigError(store, "SDK not initialized. Please initialize with CryptoMomoProvider."))
       ELSE NewClientCall(StoreConfig(store), "requestConnection", [phoneNumber |-> phoneNum])
    /\ UNCHANGED hookVars

\* useConnect.verifyOTP(otp)
HookVerifyOTP(otp) ==
    /\ HookIdle
    /\ IF ~Truthy(otp)
       THEN HookReject("verifyOTP", ValidationError(INVALID_OTP_MESSAGE))
       ELSE IF connectionId = Null
       THEN HookReject("verifyOTP", ValidationError("No active connection to verify"))
       ELSE IF store.config = {}
       THEN HookReject("verifyOTP",
                       ConfigError(store, "SDK not initialized. Please initialize with CryptoMomoProvider."))
       ELSE NewClientCall(StoreConfig(store), "verifyOTP",
                          [connectionId |-> connectionId, otp |-> otp])
    /\ UNCHANGED hookVars

\* useTransaction.executeRegular / executeGasless
HookExecute(gasless) ==
    /\ HookIdle
    /\ LET op == IF gasless THEN "sendGaslessTransaction" ELSE "sendTransaction"
       IN IF ValidateAuth(store) # NoError
          THEN HookReject(op, ValidateAuth(store))
          ELSE NewClientCall(StoreConfig(store), op,
                             [connectionId |-> (CHOOSE c \in store.currentConnection : TRUE).id])
    /\ UNCHANGED hookVars

\* The component renders useTransactionStatus(transactionId): a query of its
\* own for each transaction id, which has no data at first.
WatchTransaction(transactionId) ==
    /\ ~CallbackPending
    /\ statusQuery.transactionId # transactionId
    /\ statusQuery' = [transactionId |-> transactionId, data |-> Undefined,
                       timer |-> QueryTimer(store, transactionId, Undefined)]
    /\ last' = NoneLast
    /\ UNCHANGED <<config, baseUrl, sessionToken, refreshToken, refreshVars, settled, reqs,
                   cleared, verified, store, connectionId>>

\* useTransactionStatus, its query fetches (at first, and whenever its timer
\* fires): queryFn runs up to the fetch of getTransactionStatus.
StatusFetch ==
    /\ HookIdle
    /\ statusQuery.timer # 0
    /\ IF store.config = {}
       THEN HookReject("getTransactionStatus", ConfigError(store, "SDK not initialized"))
       ELSE IF ~Truthy(statusQuery.transactionId)
       THEN HookReject("getTransactionStatus", ValidationError("Transaction ID is required"))
       ELSE NewClientCall(StoreConfig(store), "getTransactionStatus",
                          [transactionId |-> statusQuery.transactionId])
    /\ UNCHANGED hookVars

\* The network answers the call in progress.
HookRespond(r) ==
    /\ reqs[1].pc = "fetch"
    /\ Respond(1, r)

\* The function of a mutation or query has settled: its callback runs.  For
\* requestConnection that resolved, onSuccess keeps the id of the connection;
\* for verifyOTP that resolved with a connection of the given status, onSuccess
\* stores the connection if it is approved (its id is the one that was
\* verified, its session token the one the client, new for this call, took
\* from the answer); for getTransactionStatus
\* that resolved with the given status, the query keeps it as its data and
\* sets its timer.
Callback(connStatus, txStatus) ==
    /\ CallbackPending
    /\ last' = NoneLast
    /\ IF last.result = "resolved" /\ last.op = "requestConnection"
       THEN /\ connectionId' = "c1"
            /\ UNCHANGED <<store, statusQuery>>
       ELSE IF last.result = "resolved" /\ last.op = "verifyOTP"
       THEN IF connStatus = "approved"
            THEN /\ connectionId' = Null
                 /\ Rendered([store EXCEPT
                                 !.currentConnection =
                                     {Connection(connectionId, connStatus, sessionToken)},
                                 !.isConnected = TRUE])
            ELSE UNCHANGED hookVars
       ELSE IF last.result = "resolved" /\ last.op = "getTransactionStatus"
       THEN /\ statusQuery' = [statusQuery EXCEPT
                                  !.data = txStatus,
                                  !.timer = QueryTimer(store, statusQuery.transactionId, txStatus)]
            /\ UNCHANGED <<store, connectionId>>
       ELSE UNCHANGED hookVars
    /\ UNCHANGED <<config, baseUrl, sessionToken, refreshToken, refreshVars, settled, reqs,
                   cleared, verified>>

\* The hooks in use: the provider and the application change the store at any
\* moment, and the hooks are called one at a time.
NextHook ==
    \/ \E cfg \in ProviderConfigs : SetConfig(cfg)
    \/ \E st \in {"pending", "approved"} : SetConnection(Connection("c2", st, Undefined))
    \/ ClearConnection
    \/ StoreReset
    \/ \E phoneNum \in {"", "+233123456789"} : HookConnect(phoneNum)
    \/ \E otp \in {"", "123456"} : HookVerifyOTP(otp)
    \/ \E gasless \in BOOLEAN : HookExecute(gasless)
    \/ \E transactionId \in {Undefined, "t1"} : WatchTransaction(transactionId)
    \/ StatusFetch
    \/ \E r \in AnswersFor(reqs[1].op) : HookRespond(r)
    \/ \E connStatus \in ConnectionStatuses, txStatus \in TransactionStatuses :
          Callback(connStatus, txStatus)

SpecHook == Init /\ [][NextHook]_vars

\* ------------------------------------------------------------------ claims

\* C1: when every call in progress is a request that was first dispatched with
\* one and the same bearer token and got the expiry 401 on that first attempt
\* while a refresh token was held, and every retry dispatched so far carries a
\* bearer token (the refresh returned one), then one call to the refresh
\* endpoint was made in total and those retries all carry one and the same
\* session token.
C1_OneRefreshForAllExpired ==
    LET expired(i) == /\ reqs[i].pc \in {"fetch", "refresh"}
                      /\ reqs[i].op # "refreshSession"
                      /\ reqs[i].err1 = ExpiredSession
                      /\ reqs[i].refreshes = 1
                      /\ \E h \in reqs[i].sent[1] : h.name = AUTH_HEADERS_BEARER
        retried(i) == Len(reqs[i].sent) = 2
                      => \E h \in reqs[i].sent[2] : h.name = AUTH_HEADERS_BEARER
    IN ((\A i \in ReqIds : expired(i) /\ retried(i))
        /\ (\A i, j \in ReqIds : reqs[i].sent[1] = reqs[j].sent[1]))
       => /\ refreshCalls = 1
          /\ \A i, j \in ReqIds :
                (Len(reqs[i].sent) = 2 /\ Len(reqs[j].sent) = 2)
                => reqs[i].sent[2] = reqs[j].sent[2]

\* C2: at most one call to the refresh endpoint is outstanding; a call that
\* enters refreshSessionToken while one is outstanding issues no call and
\* awaits the outstanding one; a settled promise is the one of the call that
\* was answered; and every awaiter resumes on the promise it awaited:
\* refreshSession settles with exactly its outcome, a request rejects with
\* exactly its error or goes on to its retry.
C2_SingleFlight ==
    [][/\ Cardinality(outstanding') <= 1
       /\ \A c \in outstanding \ outstanding' : settled'.id = c.id
       /\ \A i \in ReqIds :
            /\ (outstanding # {} /\ reqs[i].pc \in {"idle", "fetch"} /\ reqs'[i].pc = "refresh")
               => /\ outstanding' = outstanding
                  /\ refreshCalls' = refreshCalls
                  /\ \E c \in outstanding : reqs'[i].awaiting = c.id
            /\ (reqs[i].pc = "refresh" /\ reqs'[i] # reqs[i])
               => /\ reqs[i].awaiting = settled.id
                  /\ (settled.error # NoError \/ reqs[i].op = "refreshSession")
                     => /\ reqs'[i].pc = "done"
                        /\ last'.error = settled.error
                        /\ last'.result = IF settled.error = NoError THEN "resolved"
                                          ELSE "rejected"
                  /\ (settled.error = NoError /\ reqs[i].op # "refreshSession")
                     => reqs'[i].pc = "fetch"
      ]_vars

\* C2, its case: refreshSession() rejected with the error of a refresh that
\* another call, still to resume, awaits too.
C2_SharedFailure ==
    /\ last.op = "refreshSession"
    /\ last.refreshes = 1
    /\ last.result = "rejected"
    /\ settled.id # 0
    /\ last.error = settled.error
    /\ \E j \in ReqIds : reqs[j].pc = "refresh" /\ reqs[j].awaiting = settled.id

\* C3: a request is dispatched at most twice and awaits at most one refresh; it
\* starts to await a refresh only on a first attempt that got the expiry 401
\* while a refresh token is held; the second dispatch follows a fulfilled
\* refresh and runs with retryOnAuth false; the answer to the second dispatch
\* settles the call (a typed failure reaches the caller as it is), with no call
\* to the refresh endpoint.
C3_RetryAtMostOnce ==
    [][\A i \in ReqIds :
         LET req == reqs[i]
             new == reqs'[i]
         IN /\ Len(new.sent) <= 2
            /\ new.refreshes <= 1
            /\ (req.pc = "fetch" /\ new.pc = "refresh")
               => /\ req.retryOnAuth
                  /\ Len(req.sent) = 1
                  /\ new.err1 = ExpiredSession
                  /\ Truthy(refreshToken)
            /\ (Len(req.sent) = 1 /\ Len(new.sent) > 1)
               => /\ Len(new.sent) = 2
                  /\ req.pc = "refresh"
                  /\ req.err1 = ExpiredSession
                  /\ settled.error = NoError
                  /\ ~new.retryOnAuth
            /\ (req.pc = "fetch" /\ ~req.retryOnAuth /\ new # req)
               => /\ new.pc = "done"
                  /\ refreshCalls' = refreshCalls
                  /\ outstanding' = outstanding
                  /\ last'.attempts = 2
                  /\ last'.refreshes = 1
                  /\ last'.thrown # NoError
                     => /\ last'.result = "rejected"
                        /\ IsCryptoMomoError(last'.thrown) => last'.error = last'.thrown
      ]_vars

\* C3, its case: the retry got another expiry 401 while a refresh token is
\* held, and that error reached the caller.
C3_RetryExpiredAgain ==
    /\ last.attempts = 2
    /\ last.thrown = ExpiredSession
    /\ last.error = ExpiredSession
    /\ Truthy(refreshToken)

\* C4: a public call that rejects, rejects with a CryptoMomoError (Validation,
\* Authentication, Network or the generic coded one).
C4_OnlyTypedErrors ==
    last.result = "rejected" => IsCryptoMomoError(last.error)

\* C5: the first attempt of a request sent with a bearer token never settles
\* the call with the expiry 401 while a refresh token is held; after a
\* fulfilled refresh the request is dispatched again; and the answer to that
\* retry settles the call, which resolves whenever that answer is a success
\* envelope (when makeRequest throws, or returns and the call does not resolve,
\* the answer handled was no success envelope).
C5_ExpiryHiddenByRetry ==
    [][\A i \in ReqIds :
         LET req == reqs[i]
             new == reqs'[i]
         IN /\ (/\ req.pc = "fetch"
                /\ req.retryOnAuth
                /\ Truthy(refreshToken)
                /\ \E h \in req.sent[1] : h.name = AUTH_HEADERS_BEARER
                /\ new.pc = "done")
               => last'.thrown # ExpiredSession
            /\ (/\ req.pc = "refresh"
                /\ req.op # "refreshSession"
                /\ settled.error = NoError
                /\ new # req)
               => /\ new.pc = "fetch"
                  /\ Len(new.sent) = 2
                  /\ last'.result = "pending"
            /\ (req.pc = "fetch" /\ ~req.retryOnAuth /\ new # req)
               => /\ last'.attempts = 2
                  /\ last'.result = "resolved" <=> last'.error = NoError
                  /\ last'.thrown # NoError
                     => \A r \in SuccessEnvelopes : FetchError(r) # last'.thrown
                  /\ (last'.thrown = NoError /\ last'.result # "resolved")
                     => \A r \in SuccessEnvelopes : ~Respond(i, r)
      ]_vars

\* C5, its case: a call resolved on its second dispatch, after one refresh.
C5_ResolvedAfterRefresh ==
    /\ last.op # "refreshSession"
    /\ last.attempts = 2
    /\ last.refreshes = 1
    /\ last.result = "resolved"

\* C6: once clearSessionToken() returned, and until the next dispatch or the
\* next setter call, no session token is held: isUsingSessionToken() is false
\* and a dispatch would carry the X-App-Token header and no bearer header.
C6_ClearedUsesAppToken ==
    cleared => /\ ~isUsingSessionToken
               /\ \A h \in AuthHeaders(sessionToken, config) : h.name = AUTH_HEADERS_APP_TOKEN

\* C7: once verifyOTP stored a session token, and until clearSessionToken or a
\* setter is called, a session token is held: isUsingSessionToken() is true and
\* a dispatch would carry the bearer header and not the X-App-Token header.
C7_VerifiedUsesBearer ==
    verified => /\ isUsingSessionToken
                /\ \A h \in AuthHeaders(sessionToken, config) : h.name = AUTH_HEADERS_BEARER

\* C8: the answer to a request that arrives while no refresh token is held
\* settles the call: no call to the refresh endpoint, no further dispatch (one
\* dispatch in all for a first attempt), and an expiry 401 reaches the caller
\* as that AuthenticationError.
C8_NoRefreshTokenNoRetry ==
    [][\A i \in ReqIds :
         (reqs[i].pc = "fetch" /\ ~Truthy(refreshToken) /\ reqs'[i] # reqs[i])
         => /\ reqs'[i].pc = "done"
            /\ refreshCalls' = refreshCalls
            /\ outstanding' = outstanding
            /\ last'.attempts = Len(reqs[i].sent)
            /\ last'.refreshes = reqs[i].refreshes
            /\ reqs[i].retryOnAuth => last'.attempts = 1
            /\ last'.thrown = ExpiredSession
               => /\ last'.result = "rejected"
                  /\ last'.error = ExpiredSession
      ]_vars

\* C8, its case: a call dispatched once rejected with the expiry error, no
\* refresh awaited, no refresh token held.
C8_ExpiredWithoutRefreshToken ==
    /\ last.attempts = 1
    /\ last.refreshes = 0
    /\ last.result = "rejected"
    /\ last.error = ExpiredSession
    /\ ~Truthy(refreshToken)

\* C9: every dispatch (first attempt or retry) carries exactly one credential
\* header, chosen from the token state of that moment: Authorization with
\* Bearer and the session token if one is held, else X-App-Token with the
\* configured app token; and isUsingSessionToken() tells which.
C9_ExactlyOneCredential ==
    [][\A i \in ReqIds :
         Len(reqs'[i].sent) > Len(reqs[i].sent)
         => LET headers == reqs'[i].sent[Len(reqs'[i].sent)]
            IN /\ Cardinality(headers) = 1
               /\ Truthy(sessionToken)
                  => headers = {[name |-> "Authorization", scheme |-> "Bearer",
                                 value |-> sessionToken]}
               /\ ~Truthy(sessionToken)
                  => headers = {[name |-> "X-App-Token", scheme |-> "",
                                 value |-> config.appToken]}
               /\ isUsingSessionToken <=> \E h \in headers : h.name = "Authorization"
      ]_vars

\* C9, its case: a call whose first attempt carried the bearer header and whose
\* retry carried the app token header.
C9_RetryInOtherMode ==
    \E i \in ReqIds :
        /\ Len(reqs[i].sent) = 2
        /\ \E h \in reqs[i].sent[1] : h.name = AUTH_HEADERS_BEARER
        /\ \E h \in reqs[i].sent[2] : h.name = AUTH_HEADERS_APP_TOKEN

\* C10: the pending handle is set exactly while a refresh call is outstanding,
\* and then stands for that call; it is not the promise that just settled; and
\* whoever awaits a refresh awaits the outstanding one or one that just settled
\* and is about to resume it.
C10_HandleSetWhileOutstanding ==
    /\ (refreshPromise # 0) <=> (outstanding # {})
    /\ \A c \in outstanding : c.id = refreshPromise
    /\ settled.id # 0 => refreshPromise # settled.id
    /\ \A i \in ReqIds :
         reqs[i].pc = "refresh"
         => /\ reqs[i].awaiting # 0
            /\ reqs[i].awaiting \in {refreshPromise, settled.id}

\* C10, its case: a refresh settled with a failure, and the next call of
\* refreshSessionToken has issued a new call to the refresh endpoint.
C10_FreshCallAfterFailure ==
    /\ settled.id # 0
    /\ settled.error # NoError
    /\ outstanding # {}
    /\ refreshPromise > settled.id

\* C11: a refresh promise that rejects, and a refreshSession() call that
\* rejects, reject with an AuthenticationError.
C11_RefreshFailsWithAuthenticationError ==
    /\ settled.error # NoError => IsAuthenticationError(settled.error)
    /\ (last.op = "refreshSession" /\ last.result = "rejected")
       => IsAuthenticationError(last.error)

C13_EveryCallCarriesTimeout ==
    LET configured == IF config.timeout # 0 THEN config.timeout ELSE 30000
    IN /\ \A i \in ReqIds : reqs[i].pc = "fetch" => reqs[i].timeout = configured
       /\ \A c \in outstanding : c.timeout = configured

C16_VerifyOtpStoresTokens ==
    [][LET req == reqs[1]
           new == reqs'[1]
       IN (req.pc = "fetch" /\ req.op = "verifyOTP" /\ new # req)
          => \A r \in Responses :
               Respond(1, r)
               => IF /\ r.transport = "ok" /\ r.status = 200 /\ r.body = "object"
                     /\ r.success /\ r.data
                  THEN /\ last'.result = "resolved"
                       /\ sessionToken' = IF r.sessionToken # Undefined THEN r.sessionToken
                                          ELSE sessionToken
                       /\ refreshToken' = IF r.refreshToken # Undefined THEN r.refreshToken
                                          ELSE refreshToken
                  ELSE /\ sessionToken' = sessionToken
                       /\ refreshToken' = refreshToken
                       /\ new.pc = "done" => last'.result = "rejected"
      ]_vars

\* C16, its case: verifyOTP resolved with no refresh made, and the client holds
\* a session token that only the server issues and the refresh token that the
\* application stores.
C16_SessionTokenOnly ==
    /\ last.op = "verifyOTP"
    /\ last.result = "resolved"
    /\ last.refreshes = 0
    /\ sessionToken = "s2"
    /\ refreshToken = "r1"
    /\ refreshCalls = 0

\* C19: for every public request operation, a 2xx envelope with success:false
\* or without data rejects the call with a CryptoMomoError (the generic class)
\* whose code is that operation's own.
C19_EnvelopeErrorCarriesOwnCode ==
    [][LET req == reqs[1]
           new == reqs'[1]
           codes == [requestConnection |-> "CONNECTION_REQUEST_ERROR",
                     registerAccount |-> "REGISTRATION_ERROR",
                     verifyOTP |-> "OTP_VERIFICATION_ERROR",
                     getConnectionById |-> "GET_CONNECTION_ERROR",
                     checkConnectionStatus |-> "CHECK_CONNECTION_ERROR",
                     sendTransaction |-> "TRANSACTION_ERROR",
                     sendGaslessTransaction |-> "GASLESS_TRANSACTION_ERROR",
                     confirmTransaction |-> "CONFIRM_TRANSACTION_ERROR",
                     getTransactionStatus |-> "GET_TRANSACTION_STATUS_ERROR",
                     getTransactionHistory |-> "GET_TRANSACTION_HISTORY_ERROR",
                     getBalance |-> "GET_BALANCE_ERROR"]
       IN (req.pc = "fetch" /\ new # req)
          => \A r \in OkResponses :
               (r.body = "object" /\ ~(r.success /\ r.data) /\ Respond(1, r))
               => /\ new.pc = "done"
                  /\ last'.result = "rejected"
                  /\ last'.error.name = "CryptoMomoError"
                  /\ last'.error.code = codes[req.op]
                  /\ sessionToken' = sessionToken
                  /\ refreshToken' = refreshToken
      ]_vars

\* C19, its case: getBalance rejected with its own code.
C19_BalanceEnvelopeError ==
    /\ last.op = "getBalance"
    /\ last.result = "rejected"
    /\ last.error.name = "CryptoMomoError"
    /\ last.error.code = "GET_BALANCE_ERROR"

\* C20: for every non-2xx answer, whatever its body, what handleErrorResponse
\* throws is chosen by the status: 401 an AuthenticationError, 400 a
\* ValidationError, 403 the AuthenticationError with the fixed IP message, 429
\* a CryptoMomoError with code RATE_LIMITED, any other status a CryptoMomoError
\* with the code of the body (UNKNOWN_ERROR if it has none) and that status.
C20_StatusMapsToKind ==
    [][LET req == reqs[1]
           new == reqs'[1]
       IN (req.pc = "fetch" /\ new # req)
          => \A r \in ErrorResponses :
               Respond(1, r)
               => LET thrown == IF new.pc = "done" THEN last'.thrown ELSE new.err1
                  IN CASE r.status = 401 -> thrown.name = "AuthenticationError"
                       [] r.status = 400 -> thrown.name = "ValidationError"
                       [] r.status = 403 ->
                            thrown = AuthenticationError(IP_NOT_WHITELISTED_MESSAGE)
                       [] r.status = 429 ->
                            /\ thrown.name = "CryptoMomoError"
                            /\ thrown.code = "RATE_LIMITED"
                            /\ thrown.statusCode = 429
                       [] OTHER ->
                            /\ thrown.name = "CryptoMomoError"
                            /\ thrown.code = IF r.body = "object" /\ r.code # Undefined
                                             THEN r.code ELSE "UNKNOWN_ERROR"
                            /\ thrown.statusCode = r.status
      ]_vars

C17_ExpiryHasSessionExpiredCode ==
    (last.result = "rejected" /\ last.error.message = "Session token has expired")
    => last.error.code = "SESSION_EXPIRED"

\* C18: the constructor issues no request; with an app token that is missing
\* or empty it throws a ValidationError and there is no client; else it returns
\* a client with no session token, no refresh token and no pending refresh,
\* which is in app token mode.
C18_ConstructorValidatesAppToken ==
    [][(reqs[1].pc = "new" /\ reqs'[1].pc # "new")
       => /\ outstanding' = {}
          /\ refreshCalls' = 0
          /\ \A i \in ReqIds : reqs'[i].sent = <<>>
          /\ IF config.appToken \in {Undefined, ""}
             THEN /\ last'.result = "rejected"
                  /\ last'.error.name = "ValidationError"
                  /\ last'.error.code = "VALIDATION_ERROR"
                  /\ \A i \in ReqIds : reqs'[i].pc = "noclient"
             ELSE /\ last'.result = "resolved"
                  /\ sessionToken' = Undefined
                  /\ refreshToken' = Undefined
                  /\ refreshPromise' = 0
                  /\ \A i \in ReqIds : reqs'[i].pc = "idle"
                  /\ \A h \in AuthHeaders(sessionToken', config') : h.name = "X-App-Token"
      ]_vars

\* C18, its case: the constructor threw for an empty app token.
C18_EmptyAppTokenRejected ==
    /\ last.op = "constructor"
    /\ last.result = "rejected"
    /\ config.appToken = ""
    /\ \A i \in ReqIds : reqs[i].pc = "noclient"

\* C21: no request is in flight with an empty phone number (requestConnection)
\* or with an empty OTP or connection id (verifyOTP): such a call was rejected
\* before any dispatch; and no call awaits a refresh because of a
\* ValidationError.
C21_BadInputNeverDispatched ==
    \A i \in ReqIds :
        /\ (reqs[i].pc = "fetch" /\ reqs[i].op = "requestConnection")
           => Truthy(Get(reqs[i].body, "phoneNumber"))
        /\ (reqs[i].pc = "fetch" /\ reqs[i].op = "verifyOTP")
           => /\ Truthy(Get(reqs[i].body, "otp"))
              /\ Truthy(Get(reqs[i].body, "connectionId"))
        /\ reqs[i].pc = "refresh" => reqs[i].err1.name # "ValidationError"

\* C22: updateConfig(partial) gives every field of the partial to the held
\* configuration, keeps its other fields, and leaves the session token, the
\* refresh token, the pending handle and the calls in progress as they are;
\* the effective base URL changes in no other step, and in that step only when
\* the partial supplies a base URL, to that URL; and every dispatch (first
\* attempt, retry or refresh call) goes to the base URL then in effect, so to
\* the one of the latest update that supplied one.
C22_UpdateConfigMergesAndRetargets ==
    [][/\ \A newConfig \in PartialConfigs :
            UpdateConfig(newConfig)
            => /\ \A k \in DOMAIN config :
                    config'[k] = IF k \in DOMAIN newConfig THEN newConfig[k] ELSE config[k]
               /\ sessionToken' = sessionToken
               /\ refreshToken' = refreshToken
               /\ refreshPromise' = refreshPromise
               /\ reqs' = reqs
               /\ outstanding' = outstanding
               /\ IF "baseUrl" \in DOMAIN newConfig /\ newConfig.baseUrl # ""
                  THEN baseUrl' = newConfig.baseUrl
                  ELSE baseUrl' = baseUrl
       /\ baseUrl' # baseUrl
          => \E newConfig \in PartialConfigs :
                /\ UpdateConfig(newConfig)
                /\ "baseUrl" \in DOMAIN newConfig
                /\ baseUrl' = newConfig.baseUrl
       /\ \A i \in ReqIds :
            Len(reqs'[i].bases) > Len(reqs[i].bases)
            => reqs'[i].bases[Len(reqs'[i].bases)] = baseUrl
       /\ \A c \in outstanding' \ outstanding : c.base = baseUrl
      ]_vars

\* C22, its case: a request first dispatched to the default base URL was
\* dispatched again, after its refresh, to the base URL an update supplied in
\* between.
C22_RetryGoesToNewBaseUrl ==
    /\ reqs[1].pc = "fetch"
    /\ reqs[1].bases = <<"http://localhost:3000/api/v1", "https://b.example/api">>
    /\ config.baseUrl = "https://b.example/api"

\* C30: the app token held is non-empty, and every request in flight that
\* carries the X-App-Token header carries a non-empty value.
C30_AppTokenNeverEmpty ==
    /\ config.appToken \notin {"", Undefined}
    /\ \A i \in ReqIds :
         reqs[i].pc = "fetch"
         => \A k \in 1..Len(reqs[i].sent) : \A h \in reqs[i].sent[k] :
               h.name = "X-App-Token" => h.value \notin {"", Undefined}

\* C23: after setTokens(a, b), getSessionToken() returns a and
\* getRefreshToken() returns b, for all strings a and b; setSessionToken(a)
\* makes getSessionToken() return a and leaves the refresh token as it is;
\* setRefreshToken(b) makes getRefreshToken() return b and leaves the session
\* token as it is; clearSessionToken() empties both; and none of the four
\* touches the pending refresh, the refresh calls or the calls in progress.
C23_TokenSlotsIndependent ==
    [][LET untouched == /\ refreshPromise' = refreshPromise
                        /\ outstanding' = outstanding
                        /\ reqs' = reqs
                        /\ config' = config
       IN /\ \A a \in SessionTokenInputs : \A b \in RefreshTokenInputs :
               SetTokens(a, b)
               => /\ getSessionToken' = a
                  /\ getRefreshToken' = b
                  /\ untouched
          /\ \A a \in SessionTokenInputs :
               SetSessionToken(a)
               => /\ getSessionToken' = a
                  /\ getRefreshToken' = getRefreshToken
                  /\ untouched
          /\ \A b \in RefreshTokenInputs :
               SetRefreshToken(b)
               => /\ getRefreshToken' = b
                  /\ getSessionToken' = getSessionToken
                  /\ untouched
          /\ ClearSessionToken
             => /\ getSessionToken' = Undefined
                /\ getRefreshToken' = Undefined
                /\ untouched
      ]_vars

\* C23, its case: while a request is in flight and a refresh token is held, the
\* session token slot holds the empty string a setter put there.
C23_SessionTokenSetAlone ==
    /\ reqs[1].pc = "fetch"
    /\ getSessionToken = ""
    /\ getRefreshToken = "r2"
    /\ ~verified

\* C24: the query string getTransactionHistory builds holds, for the filters
\* object it was given, the pair name=value of every field the object has (an
\* empty string counts as not provided, the number 0 as provided), in the
\* order connectionId, phoneNumber, limit, offset, status, and nothing else;
\* the one getBalance builds holds connectionId and then, of tokenAddress and
\* chainId, those it was given.
C24_QueryHasExactlyProvidedFields ==
    [][LET text(v) == CASE v = 0 -> "0" [] v = 10 -> "10" [] v = 20 -> "20" [] v = 137 -> "137"
           pair(object, k) ==
               IF k \notin DOMAIN object THEN <<>>
               ELSE IF k \in {"limit", "offset", "chainId"} THEN << <<k, text(object[k])>> >>
               ELSE IF object[k] = "" THEN <<>>
               ELSE IF object[k] = "+233123456789" THEN << <<k, "%2B233123456789">> >>
               ELSE << <<k, object[k]>> >>
       IN /\ \A args \in ArgInputs("getTransactionHistory") :
               Call(1, "getTransactionHistory", args)
               => LET filters == IF "filters" \in DOMAIN args THEN args.filters ELSE NoArgs
                  IN reqs'[1].endpoint.query =
                        pair(filters, "connectionId") \o pair(filters, "phoneNumber")
                        \o pair(filters, "limit") \o pair(filters, "offset")
                        \o pair(filters, "status")
          /\ \A args \in ArgInputs("getBalance") :
               Call(1, "getBalance", args)
               => reqs'[1].endpoint.query =
                     pair(args, "connectionId") \o pair(args, "tokenAddress")
                     \o pair(args, "chainId")
      ]_vars

\* C25: while the store holds an approved connection that verifyOTP returned
\* with a session token, a transaction or status request of the hooks in
\* flight carries that session token as its bearer credential, and no
\* X-App-Token header.
C25_HooksSendBearerAfterVerify ==
    \A c \in store.currentConnection :
        (/\ c.status = "approved"
         /\ c.sessionToken \notin {Undefined, ""}
         /\ reqs[1].pc = "fetch"
         /\ reqs[1].op \in {"sendTransaction", "sendGaslessTransaction", "getTransactionStatus"})
        => reqs[1].sent[1] = {[name |-> AUTH_HEADERS_BEARER, scheme |-> "Bearer",
                               value |-> c.sessionToken]}

C28_FailedRefreshChangesNothing ==
    [][/\ \A c \in outstanding \ outstanding', r \in Answers :
            (/\ \/ r.transport = "failed"
                \/ ~ResponseOk(r)
                \/ r.body # "object"
                \/ ~(r.success /\ r.data)
             /\ RefreshRespond(c, r))
            => /\ settled'.id = c.id
               /\ settled'.error # NoError
               /\ sessionToken' = sessionToken
               /\ refreshToken' = refreshToken
               /\ reqs' = reqs
       /\ \A i \in ReqIds :
            (settled.error # NoError /\ reqs[i].pc = "refresh" /\ reqs'[i] # reqs[i] /\ Resume(i))
            => /\ reqs'[i].pc = "done"
               /\ last'.result = "rejected"
               /\ last'.error = settled.error
               /\ last'.error # reqs[i].err1
               /\ last'.attempts = Len(reqs[i].sent)
               /\ sessionToken' = sessionToken
               /\ refreshToken' = refreshToken
       /\ \A i \in ReqIds :
            (reqs[i].pc = "refresh" /\ reqs'[i].pc = "fetch") => settled.error = NoError
      ]_vars

\* C28, its case: sendTransaction, answered that the session expired, awaited
\* a refresh that was answered with a non-2xx status, and has rejected with the
\* refresh's error after its one dispatch, the tokens still held.
C28_RejectedWithRefreshError ==
    /\ last.op = "sendTransaction"
    /\ last.result = "rejected"
    /\ last.error = AuthenticationError("Failed to refresh session")
    /\ last.refreshes = 1
    /\ last.attempts = 1
    /\ sessionToken = "s1"
    /\ refreshToken = "r1"

\* C29: a request whose answer starts a refresh call (a new call to the
\* refresh endpoint, not the joining of a pending one) was dispatched with the
\* bearer session token.
C29_RefreshOnlyForBearerRequests ==
    [][\A i \in ReqIds :
          (/\ reqs[i].pc = "fetch"
           /\ reqs'[i].pc = "refresh"
           /\ refreshCalls' = refreshCalls + 1)
          => \E h \in reqs[i].sent[Len(reqs[i].sent)] : h.name = AUTH_HEADERS_BEARER
      ]_vars

====
